---- MODULE Spec2Model ----
(***************************************************************************)
(* Model of the api_sports client library:                                 *)
(*   api_sports/cache.py     Cache     (file-backed key -> {data,timestamp}) *)
(*   api_sports/base_api.py  BaseAPI   (cache / rate-limit / HTTP pipeline)  *)
(*   api_sports/nfl_api.py   NFLAPI    (wrappers that build params)          *)
(*                                                                         *)
(* Time is an integer number of clock ticks; TicksPerSecond ticks make one *)
(* second, so min_request_interval = 1.0 s and expire_seconds = 3600 s keep *)
(* their source values.  time.time() is taken to be non-decreasing.        *)
(***************************************************************************)
EXTENDS Integers, Sequences, FiniteSets, TLC

VARIABLES
    now,                \* the value time.time() returns, in ticks
    cache,              \* cache[i]: Cache.cache of instance i (the in-memory dict)
    cache_file,         \* the content of the backing file 'cache.json'
    last_request_time,  \* last_request_time[i]: BaseAPI.last_request_time of client i
    out_end,            \* history: out_end[i] = when client i's latest outbound request ended (-1: none)
    last,               \* history: the most recent _get call
    op                  \* history: the most recent direct operation on the store

vars == <<now, cache, cache_file, last_request_time, out_end, last, op>>

----------------------------------------------------------------------------
(* Bounds of the model *)

TicksPerSecond == 2     \* clock resolution
MaxSlack       == 2     \* width, in ticks, of each window in which the clock is observed
MaxCalls       == 2     \* number of _get calls in one behaviour
MaxOps         == 3     \* number of direct store operations in one behaviour
MaxDelay       == 1     \* a request takes, and time.sleep returns late by, 0..MaxDelay ticks

(* Program constants *)

min_request_interval == 1 * TicksPerSecond      \* base_api.py:14, 1.0 second
expire_seconds       == 3600 * TicksPerSecond   \* cache.py:6, 3600 seconds

(* time.time() of a running process is far from 0, the initial            *)
(* last_request_time: the clock starts one expiration window after it.    *)
StartTime == expire_seconds

(* The clock values of a behaviour lie in two windows of MaxSlack ticks:   *)
(* one at the start, one that begins a tick before entries written in the *)
(* first expire.                                                           *)
InWindow(t) ==
    /\ t <= StartTime + expire_seconds + MaxSlack
    /\ (t - StartTime) % (expire_seconds - 1) <= MaxSlack

Instances == {1, 2}     \* client / store instances that exist in the process

----------------------------------------------------------------------------
(* Python values *)

None == [t |-> "None"]

PyInt(n) == [int |-> n]
PyStr(s) == [str |-> s]
Dict(items) == [items |-> items]      \* a dict, as its items in insertion order

(* The parameter mappings the NFLAPI wrappers build: None (get_seasons),   *)
(* {} (get_leagues()), {'season': ...} (get_leagues(season=...)).          *)
ParamsSet ==
    { None,
      Dict(<< >>),
      Dict(<< <<"season", PyInt(2023)>> >>),
      Dict(<< <<"season", PyStr("2023")>> >>),
      Dict(<< <<"league", PyInt(1)>>, <<"season", PyInt(2023)>> >>) }

Endpoints == {"/seasons", "/leagues", "/games", "/games/events"}

(* repr() of a parameter value, and str() of a parameter mapping *)
Repr(v) == IF "int" \in DOMAIN v THEN ToString(v.int) ELSE "'" \o v.str \o "'"

RECURSIVE JoinItems(_)
JoinItems(items) ==
    IF items = << >> THEN ""
    ELSE LET h == Head(items)
             one == "'" \o h[1] \o "': " \o Repr(h[2])
         IN IF Len(items) = 1 THEN one ELSE one \o ", " \o JoinItems(Tail(items))

str(params) ==
    IF params = None THEN "None" ELSE "{" \o JoinItems(params.items) \o "}"

(* Mutant of CacheKey: the parameters are left out of the key *)
CacheKey_EndpointOnly(endpoint, params) == endpoint \o "_"

(* base_api.py:18   key = f"{endpoint}_{str(params)}" *)
CacheKey(endpoint, params) == endpoint \o "_" \o str(params)

(* The calls of a behaviour: get_leagues(), get_leagues(season=2023) and   *)
(* get_seasons() (nfl_api.py:52, :72).                                     *)
Requests ==
    { <<"/leagues", Dict(<< >>)>>,
      <<"/leagues", Dict(<< <<"season", PyInt(2023)>> >>)>>,
      <<"/seasons", None>> }

Keys == { CacheKey(r[1], r[2]) : r \in Requests }

----------------------------------------------------------------------------
(* The backing file: json.dump / json.load                                 *)

(* A JSON document is kept as its syntax tree: null, number, string,       *)
(* object (members in order).  json.dump writes None as null, an int as a  *)
(* number, a str as a string and a dict as an object; json.load reads them *)
(* back as None, int, str and dict.                                        *)
JNull == [j |-> "null"]

(* Mutant of JsonEncodeValue: None is written as the string "None" *)
JsonEncodeValue_NoneAsString(v) ==
    IF v = None THEN [string |-> "None"]
    ELSE IF "int" \in DOMAIN v THEN [num |-> v.int]
    ELSE IF "str" \in DOMAIN v THEN [string |-> v.str]
    ELSE [members |-> [i \in DOMAIN v.items |->
                         <<v.items[i][1],
                           IF "int" \in DOMAIN v.items[i][2]
                              THEN [num |-> v.items[i][2].int]
                              ELSE [string |-> v.items[i][2].str]>>]]

JsonEncodeValue(v) ==
    IF v = None THEN JNull
    ELSE IF "int" \in DOMAIN v THEN [num |-> v.int]
    ELSE IF "str" \in DOMAIN v THEN [string |-> v.str]
    ELSE [members |-> [i \in DOMAIN v.items |->
                         <<v.items[i][1],
                           IF "int" \in DOMAIN v.items[i][2]
                              THEN [num |-> v.items[i][2].int]
                              ELSE [string |-> v.items[i][2].str]>>]]

JsonDecodeValue(j) ==
    IF j = JNull THEN None
    ELSE IF "num" \in DOMAIN j THEN PyInt(j.num)
    ELSE IF "string" \in DOMAIN j THEN PyStr(j.string)
    ELSE Dict([i \in DOMAIN j.members |->
                 <<j.members[i][1],
                   IF "num" \in DOMAIN j.members[i][2]
                      THEN PyInt(j.members[i][2].num)
                      ELSE PyStr(j.members[i][2].string)>>])

(* A response mapping: the field 'params' holds a Python value, the other  *)
(* fields hold numbers, booleans and strings.                              *)
JsonEncodeData(data) ==
    [f \in DOMAIN data |-> IF f = "params" THEN JsonEncodeValue(data[f]) ELSE data[f]]

JsonDecodeData(doc) ==
    [f \in DOMAIN doc |-> IF f = "params" THEN JsonDecodeValue(doc[f]) ELSE doc[f]]

json_dump(table) ==
    [k \in DOMAIN table |->
        [data |-> JsonEncodeData(table[k].data), timestamp |-> table[k].timestamp]]

json_load(doc) ==
    [k \in DOMAIN doc |->
        [data |-> JsonDecodeData(doc[k].data), timestamp |-> doc[k].timestamp]]

NoFile == [exists |-> FALSE]

(* cache.py:11-15 *)
_load_cache(file) == IF file.exists THEN json_load(file.doc) ELSE << >>

(* cache.py:17-19 *)
_save_cache(table) == [exists |-> TRUE, doc |-> json_dump(table)]

----------------------------------------------------------------------------
(* Cache: each operation maps the store (in-memory table, file) at time t  *)
(* to the new store and the returned value.  mem is the table right after  *)
(* the in-memory mutation, before the file is rewritten.                   *)

(* cache.py:24 and :41   time.time() - entry['timestamp'] < self.expire_seconds *)
IsFresh(entry, t) == t - entry.timestamp < expire_seconds

Remove(table, key) == [k \in DOMAIN table \ {key} |-> table[k]]

(* Mutant of get: an expired entry is reported absent but not deleted *)
get_KeepsExpired(table, file, key, t) ==
    IF key \in DOMAIN table /\ IsFresh(table[key], t)
    THEN [cache |-> table, file |-> file, result |-> table[key].data,
          mem |-> table, wrote |-> FALSE]
    ELSE [cache |-> table, file |-> file, result |-> None,
          mem |-> table, wrote |-> FALSE]

(* Mutant of get: an expired entry is deleted but the file is not rewritten *)
get_NoRewrite(table, file, key, t) ==
    IF key \in DOMAIN table
    THEN IF IsFresh(table[key], t)
         THEN [cache |-> table, file |-> file, result |-> table[key].data,
               mem |-> table, wrote |-> FALSE]
         ELSE [cache |-> Remove(table, key), file |-> file, result |-> None,
               mem |-> Remove(table, key), wrote |-> FALSE]
    ELSE [cache |-> table, file |-> file, result |-> None,
          mem |-> table, wrote |-> FALSE]

(* Mutant of get: an entry whose age equals the window is still returned *)
get_InclusiveWindow(table, file, key, t) ==
    IF key \in DOMAIN table
    THEN IF t - table[key].timestamp <= expire_seconds
         THEN [cache |-> table, file |-> file, result |-> table[key].data,
               mem |-> table, wrote |-> FALSE]
         ELSE LET del == Remove(table, key)
              IN [cache |-> del, file |-> _save_cache(del), result |-> None,
                  mem |-> del, wrote |-> TRUE]
    ELSE [cache |-> table, file |-> file, result |-> None,
          mem |-> table, wrote |-> FALSE]

(* Mutant of get: a hit renews the timestamp of the entry *)
get_TouchOnHit(table, file, key, t) ==
    IF key \in DOMAIN table
    THEN IF IsFresh(table[key], t)
         THEN LET put == [table EXCEPT ![key].timestamp = t]
              IN [cache |-> put, file |-> _save_cache(put), result |-> table[key].data,
                  mem |-> put, wrote |-> TRUE]
         ELSE LET del == Remove(table, key)
              IN [cache |-> del, file |-> _save_cache(del), result |-> None,
                  mem |-> del, wrote |-> TRUE]
    ELSE [cache |-> table, file |-> file, result |-> None,
          mem |-> table, wrote |-> FALSE]

(* cache.py:21-29 *)
get(table, file, key, t) ==
    IF key \in DOMAIN table
    THEN IF IsFresh(table[key], t)
         THEN [cache |-> table, file |-> file, result |-> table[key].data,
               mem |-> table, wrote |-> FALSE]
         ELSE LET del == Remove(table, key)
              IN [cache |-> del, file |-> _save_cache(del), result |-> None,
                  mem |-> del, wrote |-> TRUE]
    ELSE [cache |-> table, file |-> file, result |-> None,
          mem |-> table, wrote |-> FALSE]

(* Mutant of set: a replaced entry keeps its timestamp *)
set_KeepsTimestamp(table, file, key, data, t) ==
    LET put == [k \in DOMAIN table \cup {key} |->
                   IF k = key
                   THEN [data |-> data,
                         timestamp |-> IF key \in DOMAIN table
                                       THEN table[key].timestamp ELSE t]
                   ELSE table[k]]
    IN [cache |-> put, file |-> _save_cache(put), result |-> None,
        mem |-> put, wrote |-> TRUE]

(* Mutant of set: the file is read again and merged before it is written *)
set_Merging(table, file, key, data, t) ==
    LET disk == _load_cache(file)
        put == [k \in DOMAIN table \cup DOMAIN disk \cup {key} |->
                   IF k = key THEN [data |-> data, timestamp |-> t]
                   ELSE IF k \in DOMAIN table THEN table[k] ELSE disk[k]]
    IN [cache |-> put, file |-> _save_cache(put), result |-> None,
        mem |-> put, wrote |-> TRUE]

(* cache.py:31-36 *)
set(table, file, key, data, t) ==
    LET put == [k \in DOMAIN table \cup {key} |->
                   IF k = key THEN [data |-> data, timestamp |-> t] ELSE table[k]]
    IN [cache |-> put, file |-> _save_cache(put), result |-> None,
        mem |-> put, wrote |-> TRUE]

(* Mutant of is_cached: the check does not purge *)
is_cached_NoPurge(table, file, key, t) ==
    [cache |-> table, file |-> file,
     result |-> key \in DOMAIN table /\ IsFresh(table[key], t),
     mem |-> table, wrote |-> FALSE]

(* cache.py:38-46 *)
is_cached(table, file, key, t) ==
    IF key \in DOMAIN table
    THEN IF IsFresh(table[key], t)
         THEN [cache |-> table, file |-> file, result |-> TRUE,
               mem |-> table, wrote |-> FALSE]
         ELSE LET del == Remove(table, key)
              IN [cache |-> del, file |-> _save_cache(del), result |-> FALSE,
                  mem |-> del, wrote |-> TRUE]
    ELSE [cache |-> table, file |-> file, result |-> FALSE,
          mem |-> table, wrote |-> FALSE]

(* cache_hits / total_requests is kept as the pair of the two integers;    *)
(* the int 0 of the empty table is 0 over 1.                               *)
Quotient(num, den) == [num |-> num, den |-> den]

(* Mutant of get_stats: expired entries are purged before counting *)
get_stats_Purging(table, file, t) ==
    LET kept == [k \in {j \in DOMAIN table : IsFresh(table[j], t)} |-> table[k]]
        total_requests == Cardinality(DOMAIN kept)
    IN [cache |-> kept, file |-> _save_cache(kept),
        result |-> [total_requests |-> total_requests, cache_hits |-> total_requests,
                    cache_misses |-> 0,
                    hit_rate |-> IF total_requests > 0
                                 THEN Quotient(total_requests, total_requests)
                                 ELSE Quotient(0, 1)],
        mem |-> kept, wrote |-> TRUE]

(* cache.py:48-60 *)
get_stats(table, file, t) ==
    LET total_requests == Cardinality(DOMAIN table)
        cache_hits == Cardinality({k \in DOMAIN table : IsFresh(table[k], t)})
        cache_misses == total_requests - cache_hits
        hit_rate == IF total_requests > 0 THEN Quotient(cache_hits, total_requests)
                    ELSE Quotient(0, 1)
    IN [cache |-> table, file |-> file,
        result |-> [total_requests |-> total_requests, cache_hits |-> cache_hits,
                    cache_misses |-> cache_misses, hit_rate |-> hit_rate],
        mem |-> table, wrote |-> FALSE]

----------------------------------------------------------------------------
(* HTTP: what requests.get can produce                                     *)

ObjectBody1 == "{\"results\": 1}"
ObjectBody2 == "{\"results\": 2}"
ArrayBody   == "[]"
HtmlBody    == "<html>"

Http(status, reason, text) == [status_code |-> status, reason |-> reason, text |-> text]

(* A response with a status code, or a requests.exceptions.RequestException *)
(* (ConnectionError covers refused connections and DNS failures).           *)
Responses ==
    { Http(200, "OK", b) : b \in {ObjectBody1, ObjectBody2, ArrayBody, HtmlBody} }
    \cup { Http(401, "Unauthorized", HtmlBody),
           Http(403, "Forbidden", HtmlBody),
           Http(429, "Too Many Requests", HtmlBody),
           Http(500, "Internal Server Error", HtmlBody) }
    \cup { [exception |-> "ConnectionError", message |-> "connection refused"] }

IsException(resp) == "exception" \in DOMAIN resp

(* response.json(): the parsed value, or ValueError for a body that is not *)
(* JSON.  A JSON object parses to a dict, "[]" parses to a list.           *)
json(text) ==
    IF text = ObjectBody1 THEN [error |-> FALSE, type |-> "dict", value |-> [results |-> 1]]
    ELSE IF text = ObjectBody2 THEN [error |-> FALSE, type |-> "dict", value |-> [results |-> 2]]
    ELSE IF text = ArrayBody THEN [error |-> FALSE, type |-> "list", value |-> << >>]
    ELSE [error |-> TRUE, type |-> "ValueError", value |-> << >>]

Returned(envelope, store) == [raised |-> FALSE, envelope |-> envelope, store |-> store]
Raised(name) == [raised |-> TRUE, envelope |-> [exception |-> name], store |-> FALSE]

(* Mutant of HttpError: the 403 branch is missing *)
HttpError_No403(response, endpoint, params) ==
    IF response.status_code = 401
    THEN Returned([error |-> "Authentication failed - Invalid API key",
                   status_code |-> response.status_code,
                   endpoint |-> endpoint, params |-> params], FALSE)
    ELSE IF response.status_code = 429
    THEN Returned([error |-> "Rate limit exceeded - Too many requests",
                   status_code |-> response.status_code,
                   endpoint |-> endpoint, params |-> params], FALSE)
    ELSE Returned([error |-> "HTTP " \o ToString(response.status_code)
                                \o " - " \o response.reason,
                   status_code |-> response.status_code,
                   endpoint |-> endpoint, params |-> params,
                   raw_response |-> response.text], FALSE)

(* base_api.py:41-70: the envelope of a response whose status is not 200 *)
HttpError(response, endpoint, params) ==
    IF response.status_code = 401
    THEN Returned([error |-> "Authentication failed - Invalid API key",
                   status_code |-> response.status_code,
                   endpoint |-> endpoint, params |-> params], FALSE)
    ELSE IF response.status_code = 403
    THEN Returned([error |-> "Access forbidden - Check API subscription plan",
                   status_code |-> response.status_code,
                   endpoint |-> endpoint, params |-> params], FALSE)
    ELSE IF response.status_code = 429
    THEN Returned([error |-> "Rate limit exceeded - Too many requests",
                   status_code |-> response.status_code,
                   endpoint |-> endpoint, params |-> params], FALSE)
    ELSE Returned([error |-> "HTTP " \o ToString(response.status_code)
                                \o " - " \o response.reason,
                   status_code |-> response.status_code,
                   endpoint |-> endpoint, params |-> params,
                   raw_response |-> response.text], FALSE)

(* Mutant of ParseBody: the parse-failure envelope is cached as well *)
ParseBody_CachesFailure(response, endpoint, params) ==
    LET parsed == json(response.text)
    IN IF parsed.error
       THEN Returned([error |-> "JSON parsing failed",
                      status_code |-> response.status_code,
                      endpoint |-> endpoint, params |-> params,
                      raw_response |-> response.text], TRUE)
       ELSE IF parsed.type # "dict"
       THEN Raised("TypeError")
       ELSE Returned([from_cache |-> FALSE,
                      status_code |-> response.status_code,
                      endpoint |-> endpoint, params |-> params]
                     @@ parsed.value, TRUE)

(* base_api.py:72-93: the body of a 200 response is parsed and the result  *)
(* annotated; store says whether it is passed to cache.set (line 92).      *)
ParseBody(response, endpoint, params) ==
    LET parsed == json(response.text)
    IN IF parsed.error
       THEN Returned([error |-> "JSON parsing failed",
                      status_code |-> response.status_code,
                      endpoint |-> endpoint, params |-> params,
                      raw_response |-> response.text], FALSE)
       ELSE IF parsed.type # "dict"
       THEN Raised("TypeError")       \* line 85: item assignment on a list
       ELSE Returned([from_cache |-> FALSE,
                      status_code |-> response.status_code,
                      endpoint |-> endpoint, params |-> params]
                     @@ parsed.value, TRUE)

(* base_api.py:41-93 *)
HandleResponse(response, endpoint, params) ==
    IF response.status_code # 200
    THEN HttpError(response, endpoint, params)
    ELSE ParseBody(response, endpoint, params)

(* Mutant of RequestFailed: the error envelope is cached *)
RequestFailed_Cached(e, endpoint, params) ==
    Returned([error |-> "Request failed: " \o e.message,
              endpoint |-> endpoint, params |-> params], TRUE)

(* Mutant of RequestFailed: the envelope carries a status code of 0 *)
RequestFailed_WithStatus(e, endpoint, params) ==
    Returned([error |-> "Request failed: " \o e.message, status_code |-> 0,
              endpoint |-> endpoint, params |-> params], FALSE)

(* base_api.py:95-100 *)
RequestFailed(e, endpoint, params) ==
    Returned([error |-> "Request failed: " \o e.message,
              endpoint |-> endpoint, params |-> params], FALSE)

(* base_api.py:20   if cached:   None and the empty dict are false *)
Truthy(value) == value # None /\ DOMAIN value # {}

(* Mutant of CacheHit: the stored mapping is returned as it is *)
CacheHit_Unflagged(cached) == cached

(* base_api.py:22-24 *)
CacheHit(cached) == [cached EXCEPT !.from_cache = TRUE]

(* Mutant of SleepTime: a call that has to wait waits the elapsed time *)
SleepTime_Elapsed(current_time, lrt) ==
    LET time_since_last_request == current_time - lrt
    IN IF time_since_last_request < min_request_interval
       THEN time_since_last_request
       ELSE 0

(* Mutant of SleepTime: the time of the last request is shared by all clients *)
SleepTime_Shared(current_time, lrt) ==
    LET latest == CHOOSE m \in {last_request_time[i] : i \in Instances} :
                      \A i \in Instances : last_request_time[i] <= m
        time_since_last_request == current_time - latest
    IN IF time_since_last_request < min_request_interval
       THEN min_request_interval - time_since_last_request
       ELSE 0

(* base_api.py:27-30: the argument of time.sleep, 0 when it is not called *)
SleepTime(current_time, lrt) ==
    LET time_since_last_request == current_time - lrt
    IN IF time_since_last_request < min_request_interval
       THEN min_request_interval - time_since_last_request
       ELSE 0

(* base_api.py:36-39 and :95: last_request_time after the request; the     *)
(* assignment of line 39 is skipped when requests.get raises.              *)
RequestTime(lrt, response, end) == IF IsException(response) THEN lrt ELSE end

----------------------------------------------------------------------------
(* History records *)

NoCall == [n |-> 0]
NoOp   == [n |-> 0]
NoResponse == [none |-> TRUE]

(* What a recorded call came to *)
Outcome(call) ==
    IF call.n = 0 THEN "none"
    ELSE IF ~call.requested THEN "hit"
    ELSE IF call.raised THEN "raised"
    ELSE IF IsException(call.response) THEN "request_failed"
    ELSE IF call.response.status_code # 200 THEN "http_error"
    ELSE IF "error" \in DOMAIN call.envelope THEN "parse_error"
    ELSE "success"

(* When a recorded call returned *)
CallEnd(call) ==
    IF call.n = 0 THEN -1 ELSE IF call.requested THEN call.req_end ELSE call.start

(* What a call record keeps of the call before it *)
Summary(call) ==
    [key |-> IF call.n = 0 THEN "" ELSE call.key, outcome |-> Outcome(call)]

(* The state of key in a table at time t: an entry is stale once the       *)
(* expiration window has elapsed since it was written.                     *)
KeyState(table, key, t) ==
    IF key \notin DOMAIN table THEN "absent"
    ELSE IF t - table[key].timestamp >= expire_seconds THEN "stale" ELSE "fresh"

Durations  == 0..MaxDelay
Oversleeps == 0..MaxDelay

----------------------------------------------------------------------------
(* State after construction: BaseAPI.__init__ (base_api.py:6-14) with      *)
(* Cache.__init__ (cache.py:6-9) and no backing file yet.                  *)
Init ==
    /\ now = StartTime
    /\ cache_file = NoFile
    /\ cache = [i \in Instances |-> _load_cache(NoFile)]
    /\ last_request_time = [i \in Instances |-> 0]
    /\ out_end = [i \in Instances |-> -1]
    /\ last = NoCall
    /\ op = NoOp

(* BaseAPI._get (base_api.py:16-100) on client c.  On a cache miss the    *)
(* inputs are: response, what requests.get produces; dur, the ticks it     *)
(* takes; over, the ticks time.sleep returns late.  requests.get is called *)
(* once, on line 36, outside any loop: attempts counts its executions.     *)
_get(c, endpoint, params) ==
    /\ last.n < MaxCalls
    /\ op' = op
    /\ \E key \in {CacheKey(endpoint, params)} :
       \E looked \in {get(cache[c], cache_file, key, now)} :
       LET cached == looked.result
           Call(requested, sleep_arg, req_start, req_end, resp, raised, envelope) ==
               [n |-> last.n + 1, client |-> c, endpoint |-> endpoint,
                params |-> params, key |-> key, start |-> now,
                pre |-> KeyState(cache[c], key, now),
                prev_out_end |-> out_end[c], prev |-> Summary(last),
                requested |-> requested, attempts |-> IF requested THEN 1 ELSE 0,
                sleep_arg |-> sleep_arg,
                req_start |-> req_start, req_end |-> req_end,
                response |-> resp, raised |-> raised, envelope |-> envelope]
       IN
       IF Truthy(cached)
       THEN /\ cache' = [cache EXCEPT ![c] = looked.cache]
            /\ cache_file' = looked.file
            /\ UNCHANGED <<now, last_request_time, out_end>>
            /\ last' = Call(FALSE, 0, -1, -1, NoResponse, FALSE, CacheHit(cached))
       ELSE \E sleep_arg \in {SleepTime(now, last_request_time[c])} :
            \E over \in (IF sleep_arg = 0 THEN {0} ELSE Oversleeps), dur \in Durations :
            \E req_start \in {now + sleep_arg + over} :
            \E req_end \in {req_start + dur} :
               /\ InWindow(req_end)
               /\ \E response \in Responses :
                  \E handled \in {IF IsException(response)
                                  THEN RequestFailed(response, endpoint, params)
                                  ELSE HandleResponse(response, endpoint, params)} :
                  \E stored \in {IF handled.store
                                 THEN set(looked.cache, looked.file, key,
                                          handled.envelope, req_end)
                                 ELSE looked} :
                     /\ now' = req_end
                     /\ last_request_time' =
                           [last_request_time EXCEPT
                               ![c] = RequestTime(last_request_time[c], response, req_end)]
                     /\ out_end' = [out_end EXCEPT ![c] = req_end]
                     /\ cache' = [cache EXCEPT ![c] = stored.cache]
                     /\ cache_file' = stored.file
                     /\ last' = Call(TRUE, sleep_arg, req_start, req_end, response,
                                     handled.raised, handled.envelope)

(* Time passes between calls *)
Advance(d) ==
    /\ InWindow(now + d)
    /\ now' = now + d
    /\ UNCHANGED <<cache, cache_file, last_request_time, out_end, last, op>>

(* The process ends and a new one constructs client c again:               *)
(* BaseAPI.__init__ (base_api.py:6-14) loads the backing file.             *)
Restart(c) ==
    /\ cache' = [cache EXCEPT ![c] = _load_cache(cache_file)]
    /\ last_request_time' = [last_request_time EXCEPT ![c] = 0]
    /\ out_end' = [out_end EXCEPT ![c] = -1]
    /\ UNCHANGED <<now, cache_file, last, op>>

Deltas == {1, expire_seconds - 1}

Next ==
    \/ \E q \in Requests : _get(1, q[1], q[2])
    \/ \E d \in Deltas : Advance(d)
    \/ Restart(1)

Spec == Init /\ [][Next]_vars

----------------------------------------------------------------------------
(* Two clients in one process, or in two processes started together: each  *)
(* has its own last_request_time and its own Cache, and both Caches use    *)
(* the backing file 'cache.json' (base_api.py:12, cache.py:6).  Calls are   *)
(* taken one at a time.                                                    *)

ClientRequests ==
    { <<"/leagues", Dict(<< >>)>>,
      <<"/seasons", None>> }

NextClients ==
    \/ \E c \in Instances, q \in ClientRequests : _get(c, q[1], q[2])
    \/ \E d \in Deltas : Advance(d)

SpecClients == Init /\ [][NextClients]_vars

----------------------------------------------------------------------------
(* The Cache used on its own: instance 1 is the store under test.          *)

(* Values handed to Cache.set: response mappings *)
Values ==
    { [results |-> 1, params |-> None],
      [results |-> 2, params |-> Dict(<< <<"season", PyInt(2023)>> >>)] }

OpRecord(name, key, pre, r, crashed) ==
    [n |-> op.n + 1, name |-> name, key |-> key, time |-> now, pre |-> pre,
     arg |-> IF "arg" \in DOMAIN r THEN r.arg ELSE None,
     result |-> r.result, mem |-> r.mem, wrote |-> r.wrote, crashed |-> crashed]

(* An operation that completes *)
Complete(name, key, r) ==
    /\ op.n < MaxOps
    /\ cache' = [cache EXCEPT ![1] = r.cache]
    /\ cache_file' = r.file
    /\ op' = OpRecord(name, key, KeyState(cache[1], key, now), r, FALSE)
    /\ UNCHANGED <<now, last_request_time, out_end, last>>

(* An operation cut short by a crash of the process after its in-memory    *)
(* mutation (cache.py:27, :32, :44) and before _save_cache (cache.py:28,   *)
(* :36, :45): the table is lost with the process, the file is as it was,   *)
(* and the next process constructs the store from it (cache.py:9).         *)
Crashed(name, key, r) ==
    /\ op.n < MaxOps
    /\ r.wrote
    /\ cache' = [cache EXCEPT ![1] = _load_cache(cache_file)]
    /\ cache_file' = cache_file
    /\ op' = OpRecord(name, key, KeyState(cache[1], key, now), r, TRUE)
    /\ UNCHANGED <<now, last_request_time, out_end, last>>

StoreGet(key) == Complete("get", key, get(cache[1], cache_file, key, now))

StoreSet(key, value) ==
    Complete("set", key, [arg |-> value] @@ set(cache[1], cache_file, key, value, now))

StoreIsCached(key) == Complete("is_cached", key, is_cached(cache[1], cache_file, key, now))

StoreGetStats == Complete("get_stats", "", get_stats(cache[1], cache_file, now))

CrashInGet(key) == Crashed("get", key, get(cache[1], cache_file, key, now))

CrashInSet(key, value) ==
    Crashed("set", key, [arg |-> value] @@ set(cache[1], cache_file, key, value, now))

CrashInIsCached(key) == Crashed("is_cached", key, is_cached(cache[1], cache_file, key, now))

(* Cache.__init__ (cache.py:6-9): a fresh instance on the same file *)
NewStore ==
    /\ op.n < MaxOps
    /\ cache' = [cache EXCEPT ![1] = _load_cache(cache_file)]
    /\ op' = [n |-> op.n + 1, name |-> "__init__", key |-> "", time |-> now,
              pre |-> "absent", arg |-> None, result |-> None,
              mem |-> _load_cache(cache_file),
              wrote |-> FALSE, crashed |-> FALSE]
    /\ UNCHANGED <<now, cache_file, last_request_time, out_end, last>>

NextStore ==
    \/ \E k \in Keys : StoreGet(k)
    \/ \E k \in Keys, v \in Values : StoreSet(k, v)
    \/ \E k \in Keys : StoreIsCached(k)
    \/ StoreGetStats
    \/ \E k \in Keys : CrashInGet(k)
    \/ \E k \in Keys, v \in Values : CrashInSet(k, v)
    \/ \E k \in Keys : CrashInIsCached(k)
    \/ NewStore
    \/ \E d \in Deltas : Advance(d)

SpecStore == Init /\ [][NextStore]_vars

----------------------------------------------------------------------------
(* Properties *)

FromCache(envelope) == "from_cache" \in DOMAIN envelope /\ envelope.from_cache

EqualButFromCache(e1, e2) ==
    /\ DOMAIN e1 = DOMAIN e2
    /\ \A f \in DOMAIN e1 \ {"from_cache"} : e1[f] = e2[f]

IsError(envelope) == "error" \in DOMAIN envelope

(* A step that is a _get call made right after the call recorded in last, *)
(* with the same endpoint and parameters                                   *)
RepeatedCall ==
    /\ last.n > 0
    /\ last'.n = last.n + 1
    /\ last'.client = last.client
    /\ last'.endpoint = last.endpoint
    /\ last'.params = last.params

(* C1, as stated: whatever the first call came to, a second call with the  *)
(* same endpoint and parameters within the expiration window makes the     *)
(* total of outbound requests at most one, and returns an envelope with    *)
(* from_cache true that equals the first call's in every other field.      *)
C1_AnyFirstOutcome ==
    [][ (RepeatedCall /\ last'.start - CallEnd(last) < expire_seconds)
        => /\ ~(last.requested /\ last'.requested)
           /\ ~last'.raised
           /\ FromCache(last'.envelope)
           /\ EqualButFromCache(last'.envelope, last.envelope) ]_vars

(* C1, amended: when the first call received HTTP 200 with a JSON object   *)
(* (and so stored its envelope), a second call with the same endpoint and  *)
(* parameters, made less than the expiration window after that request     *)
(* completed, issues no outbound request and returns an envelope with      *)
(* from_cache true that equals the first call's in every other field.      *)
C1_SecondCallIsCacheHit ==
    [][ (/\ RepeatedCall
         /\ Outcome(last) = "success"
         /\ last'.start - last.req_end < expire_seconds)
        => /\ ~last'.requested
           /\ ~last'.raised
           /\ ~last.envelope.from_cache
           /\ FromCache(last'.envelope)
           /\ EqualButFromCache(last'.envelope, last.envelope) ]_vars

C1_Witness ==
    /\ last.n >= 2
    /\ last.prev.key = last.key
    /\ last.prev.outcome = "success"
    /\ Outcome(last) = "hit"
    /\ FromCache(last.envelope)

(* C2: a cache-missing call that starts less than min_request_interval    *)
(* after the client's previous outbound request ended blocks for the       *)
(* remaining difference, and every outbound request starts at least        *)
(* min_request_interval after the end of the client's previous one.        *)
C2_RequestsAreSpaced ==
    (last.n > 0 /\ last.requested /\ last.prev_out_end >= 0)
    => /\ last.req_start - last.prev_out_end >= min_request_interval
       /\ last.start - last.prev_out_end < min_request_interval
          => last.sleep_arg = min_request_interval - (last.start - last.prev_out_end)

(* C3: every _get call returns an envelope; nothing propagates to the      *)
(* caller as an exception.                                                 *)
C3_NeverRaises == last.n > 0 => ~last.raised

(* C4: a call that finds an entry of its key whose expiration window has   *)
(* elapsed issues an outbound request, a success envelope then carries     *)
(* from_cache = false, and the stale entry is gone from the table and from *)
(* the backing file (the key is absent, or holds the entry this call wrote).*)
C4_StaleEntryRefetched ==
    (last.n > 0 /\ last.pre = "stale")
    => LET table == cache[last.client]
           disk  == _load_cache(cache_file)
       IN /\ last.requested
          /\ Outcome(last) = "success" => ~last.envelope.from_cache
          /\ last.key \in DOMAIN table
             => /\ Outcome(last) = "success"
                /\ table[last.key].timestamp = last.req_end
          /\ last.key \in DOMAIN disk
             => /\ Outcome(last) = "success"
                /\ disk[last.key].timestamp = last.req_end

C4_Witness ==
    /\ last.n > 0
    /\ last.pre = "stale"
    /\ Outcome(last) = "success"
    /\ last.key \in DOMAIN cache[last.client]

HasStatus(call) == call.n > 0 /\ call.requested /\ ~IsException(call.response)

ErrorEnvelope(message, call) ==
    [error |-> message, status_code |-> call.response.status_code,
     endpoint |-> call.endpoint, params |-> call.params]

SpecificMessages ==
    { "Authentication failed - Invalid API key",
      "Access forbidden - Check API subscription plan",
      "Rate limit exceeded - Too many requests" }

(* C5: a response with status 401, 403 or 429 yields the error envelope of *)
(* that status, with its message and status code; every other status but   *)
(* 200 yields a generic HTTP error envelope with the status code and the   *)
(* raw response body.                                                      *)
C5_ClassifiedByStatus ==
    (HasStatus(last) /\ last.response.status_code # 200)
    => /\ ~last.raised
       /\ last.envelope =
            IF last.response.status_code = 401
            THEN ErrorEnvelope("Authentication failed - Invalid API key", last)
            ELSE IF last.response.status_code = 403
            THEN ErrorEnvelope("Access forbidden - Check API subscription plan", last)
            ELSE IF last.response.status_code = 429
            THEN ErrorEnvelope("Rate limit exceeded - Too many requests", last)
            ELSE [raw_response |-> last.response.text] @@
                 ErrorEnvelope(last.envelope.error, last)
       /\ last.response.status_code \notin {401, 403, 429}
          => last.envelope.error \notin SpecificMessages

C5_Witness ==
    /\ HasStatus(last)
    /\ last.response.status_code = 403
    /\ last.envelope.status_code = 403

(* A 200 response whose body is not JSON *)
Unparseable(call) ==
    HasStatus(call) /\ call.response.status_code = 200 /\ call.response.text = HtmlBody

(* C6: a 200 response whose body fails to parse yields the parse-failure   *)
(* envelope with the raw body, status code 200, endpoint and parameters;   *)
(* no entry of the call's key is in the table or the backing file          *)
(* afterwards, and the next call with the same endpoint and parameters     *)
(* issues an outbound request.                                             *)
C6_ParseFailureNotCached ==
    /\ Unparseable(last)
       => /\ ~last.raised
          /\ last.envelope =
                [raw_response |-> last.response.text] @@
                ErrorEnvelope("JSON parsing failed", last)
          /\ last.envelope.status_code = 200
          /\ last.key \notin DOMAIN cache[last.client]
          /\ last.key \notin DOMAIN _load_cache(cache_file)
    /\ (last.n > 0 /\ last.prev.outcome = "parse_error" /\ last.prev.key = last.key)
       => last.requested

C6_Witness ==
    /\ last.n > 0
    /\ last.prev.outcome = "parse_error"
    /\ last.prev.key = last.key
    /\ last.requested

(* C7: whatever an outbound request comes to, its completion time is the   *)
(* client's last_request_time afterwards.                                  *)
C7_CompletionTimeRecorded ==
    \A c \in Instances : out_end[c] >= 0 => last_request_time[c] = out_end[c]

NoParams     == Dict(<< >>)
Season2023   == Dict(<< <<"season", PyInt(2023)>> >>)

(* The entry of key in a table, None when the key is absent *)
EntryOf(table, key) == IF key \in DOMAIN table THEN table[key] ELSE None

(* The keys of all endpoints and parameter mappings: the key is the       *)
(* endpoint, "_" and the string form of the parameters, and different      *)
(* (endpoint, parameters) have different keys.                             *)
KeysAreDistinct ==
    /\ \A e \in Endpoints : CacheKey(e, NoParams) # CacheKey(e, Season2023)
    /\ \A e1 \in Endpoints, e2 \in Endpoints, p1 \in ParamsSet, p2 \in ParamsSet :
          CacheKey(e1, p1) = CacheKey(e2, p2) => (e1 = e2 /\ p1 = p2)
    /\ \A e \in Endpoints, p \in ParamsSet : CacheKey(e, p) = e \o "_" \o str(p)

(* C8: the key is a function of the endpoint and the string form of the    *)
(* parameters; {} and {'season': 2023} on one endpoint get distinct keys,  *)
(* and so do any two different (endpoint, parameters); an entry is only    *)
(* ever returned for the endpoint and parameters it was cached for, and a  *)
(* call leaves the entries of all other keys as they were.                 *)
C8_DistinctKeys ==
    /\ [](/\ KeysAreDistinct
          /\ \A k \in DOMAIN cache[1] :
                CacheKey(cache[1][k].data.endpoint, cache[1][k].data.params) = k
          /\ Outcome(last) = "hit"
                => /\ last.envelope.endpoint = last.endpoint
                   /\ last.envelope.params = last.params)
    /\ [][ last'.n = last.n + 1
           => \A k \in Keys \ {last'.key} :
                 /\ EntryOf(cache'[1], k) = EntryOf(cache[1], k)
                 /\ EntryOf(_load_cache(cache_file'), k)
                       = EntryOf(_load_cache(cache_file), k) ]_vars

C8_Witness ==
    /\ CacheKey("/leagues", NoParams) \in DOMAIN cache[1]
    /\ CacheKey("/leagues", Season2023) \in DOMAIN cache[1]
    /\ cache[1][CacheKey("/leagues", NoParams)].data.results
          # cache[1][CacheKey("/leagues", Season2023)].data.results

(* C11: a call that finds a non-expired entry of its key returns the       *)
(* stored value with from_cache = true and does nothing else: it issues no *)
(* request, does not block (the clock does not move), and leaves           *)
(* last_request_time, the stored entry (data with from_cache = false, and  *)
(* timestamp), the whole table and the backing file as they were.          *)
C11_HitChangesNothing ==
    [][ (last'.n = last.n + 1 /\ last'.pre = "fresh")
        => LET entry == cache[last'.client][last'.key]
           IN /\ ~last'.requested
              /\ ~last'.raised
              /\ last'.sleep_arg = 0
              /\ entry.data.from_cache = FALSE
              /\ last'.envelope = [entry.data EXCEPT !.from_cache = TRUE]
              /\ now' = now
              /\ last_request_time' = last_request_time
              /\ out_end' = out_end
              /\ cache' = cache
              /\ cache_file' = cache_file ]_vars

C11_Witness ==
    /\ last.n > 0
    /\ last.pre = "fresh"
    /\ Outcome(last) = "hit"
    /\ last.start > cache[last.client][last.key].timestamp
    /\ Cardinality(DOMAIN cache[last.client]) = 1

(* A call whose request did not produce a JSON object with status 200 *)
Failed(call) ==
    /\ call.n > 0
    /\ call.requested
    /\ \/ IsException(call.response)
       \/ call.response.status_code # 200
       \/ json(call.response.text).error
       \/ json(call.response.text).type # "dict"

(* C12: a call issues at most one outbound request whatever the request    *)
(* comes to, and a failure is surfaced once, as the error envelope the     *)
(* call that observed it returns: that call does not raise, and no later   *)
(* call is answered with the failure from the cache.                       *)
C12_NoRetries ==
    last.n > 0
    => /\ last.attempts <= 1
       /\ Failed(last)
          => /\ last.attempts = 1
             /\ ~last.raised
             /\ IsError(last.envelope)
             /\ last.envelope.endpoint = last.endpoint
             /\ last.envelope.params = last.params
       /\ ~last.requested => ~IsError(last.envelope)

(* C13: every error envelope a call returns, of every kind, holds the      *)
(* endpoint and the parameter mapping of that call; it holds the status    *)
(* code of the response when there was a response, and no status code      *)
(* exactly when the request failed in transport.                           *)
C13_ErrorsNameTheCall ==
    (last.n > 0 /\ ~last.raised)
    => /\ Outcome(last) \in {"request_failed", "http_error", "parse_error"}
          => IsError(last.envelope)
       /\ IsError(last.envelope)
          => /\ last.requested
             /\ last.envelope.endpoint = last.endpoint
             /\ last.envelope.params = last.params
             /\ "status_code" \in DOMAIN last.envelope <=> ~IsException(last.response)
             /\ ~IsException(last.response)
                => last.envelope.status_code = last.response.status_code

C13_Witness ==
    /\ last.n > 0
    /\ Outcome(last) = "request_failed"
    /\ IsError(last.envelope)
    /\ last.params = Season2023
    /\ last.prev.outcome \in {"http_error", "parse_error"}

(* An entry as a successful call writes it *)
SuccessEntry(entry, key) ==
    /\ ~IsError(entry.data)
    /\ entry.data.from_cache = FALSE
    /\ entry.data.status_code = 200
    /\ "results" \in DOMAIN entry.data
    /\ CacheKey(entry.data.endpoint, entry.data.params) = key

(* How the entry of key may change in one step, from table t1 to table t2: *)
(* a call with that key that received 200 and a JSON object writes its     *)
(* envelope with the time the request ended, or a call with that key that  *)
(* found the entry expired, and did not succeed, leaves the key absent.    *)
AllowedChange(t1, t2, key) ==
    EntryOf(t1, key) # EntryOf(t2, key)
    => /\ last'.n = last.n + 1
       /\ last'.key = key
       /\ IF Outcome(last') = "success"
          THEN /\ last'.response.status_code = 200
               /\ ~json(last'.response.text).error
               /\ t2[key] = [data |-> last'.envelope, timestamp |-> last'.req_end]
               /\ last'.envelope.endpoint = last'.endpoint
               /\ last'.envelope.params = last'.params
          ELSE /\ key \notin DOMAIN t2
               /\ last'.pre = "stale"

(* C19: every entry of the table and of the backing file is one a call     *)
(* wrote on HTTP 200 with a parseable body: its data has from_cache =      *)
(* false, status code 200 and the endpoint and parameters of its key; a    *)
(* call that ends in an error creates and overwrites nothing; and an entry *)
(* disappears only when a call reads its key after it has expired.         *)
C19_OnlySuccessesCached ==
    /\ [](/\ \A k \in DOMAIN cache[1] : SuccessEntry(cache[1][k], k)
          /\ \E disk \in {_load_cache(cache_file)} :
                \A k \in DOMAIN disk : SuccessEntry(disk[k], k))
    /\ [][ /\ cache'[1] # cache[1]
              => \A k \in Keys : AllowedChange(cache[1], cache'[1], k)
           /\ cache_file' # cache_file
              => \E before \in {_load_cache(cache_file)} :
                 \E after \in {_load_cache(cache_file')} :
                    \A k \in Keys : AllowedChange(before, after, k) ]_vars

C19_Witness ==
    /\ last.n >= 2
    /\ Outcome(last) \in {"request_failed", "http_error", "parse_error"}
    /\ last.prev.outcome = "success"
    /\ last.prev.key # last.key
    /\ DOMAIN cache[1] = {last.prev.key}
    /\ DOMAIN _load_cache(cache_file) = {last.prev.key}

(* C21: on every cache miss the time the call asks to sleep for rate       *)
(* limiting is at least 0 and at most min_request_interval: it is          *)
(* min_request_interval minus the time elapsed since last_request_time     *)
(* when that is below the interval, and the call does not sleep when the   *)
(* elapsed time is at least the interval, as on the first request of a     *)
(* client, whose last_request_time is 0.                                   *)
C21_BlockingBounded ==
    [][ (last'.n = last.n + 1 /\ last'.requested)
        => LET lrt == last_request_time[last'.client]
               elapsed == last'.start - lrt
               blocked == last'.sleep_arg
           IN /\ elapsed >= 0
              /\ blocked >= 0
              /\ blocked <= min_request_interval
              /\ elapsed < min_request_interval
                    => /\ blocked = min_request_interval - elapsed
                       /\ blocked > 0
                       /\ last'.req_start >= last'.start + blocked
              /\ elapsed >= min_request_interval
                    => /\ blocked = 0
                       /\ last'.req_start = last'.start
              /\ lrt = 0 => blocked = 0 ]_vars

C21_Witness ==
    /\ last.n >= 2
    /\ last.requested
    /\ last.sleep_arg > 0
    /\ last.sleep_arg < min_request_interval
    /\ last.req_start = last.start + last.sleep_arg
    /\ last.start - last.prev_out_end = min_request_interval - last.sleep_arg

----------------------------------------------------------------------------
(* Properties of the store on its own (SpecStore) *)

(* What Cache.get returns for key at the current time from a table *)
Read(table, key) == get(table, cache_file, key, now).result

(* C9: a fresh store constructed on the same backing file returns, for     *)
(* every key, what the original instance returns: the stored value for a   *)
(* key that is not expired, None otherwise.                                *)
C9_ReloadGivesSameResults ==
    \A k \in Keys :
        /\ Read(_load_cache(cache_file), k) = Read(cache[1], k)
        /\ KeyState(cache[1], k, now) = "fresh" => Read(_load_cache(cache_file), k) # None

C9_Witness ==
    /\ op.n > 0
    /\ op.name = "__init__"
    /\ \E k \in Keys : KeyState(cache[1], k, now) = "fresh" /\ Read(cache[1], k) # None
    /\ \E k \in Keys : KeyState(cache[1], k, now) = "stale"

(* The keys at which two tables differ *)
Diff(t1, t2) == { k \in DOMAIN t1 \cup DOMAIN t2 : EntryOf(t1, k) # EntryOf(t2, k) }

(* C10: after every completed operation the backing file holds the         *)
(* in-memory table (no file: the empty table); when the process crashes    *)
(* between the in-memory mutation and the rewrite, the file differs from   *)
(* the table as it was in memory only at the key of that operation.        *)
C10_FileIsSnapshot ==
    /\ _load_cache(cache_file) = cache[1]
    /\ cache_file.exists => cache_file.doc = json_dump(cache[1])
    /\ (op.n > 0 /\ op.crashed) => Diff(op.mem, _load_cache(cache_file)) \subseteq {op.key}
    /\ (op.n > 0 /\ ~op.crashed) => op.mem = cache[1]

C10_Witness ==
    /\ op.n > 0
    /\ op.crashed
    /\ op.name = "get"
    /\ Diff(op.mem, _load_cache(cache_file)) = {op.key}
    /\ DOMAIN cache[1] # {op.key}

(* A step that is a completed call of the store operation name *)
Completes(name) == op'.n = op.n + 1 /\ op'.name = name /\ ~op'.crashed

(* The entries of all keys but key are the same in two tables *)
SameElsewhere(t1, t2, key) == \A j \in Keys \ {key} : EntryOf(t1, j) = EntryOf(t2, j)

(* C14: get(key) returns the stored value exactly when the key is present  *)
(* and less than the expiration window has elapsed since its timestamp,    *)
(* and then changes nothing; for a key that is present and expired it      *)
(* deletes the entry, rewrites the backing file and returns None; for an   *)
(* absent key it returns None and changes nothing.  The entries of other   *)
(* keys, expired or not, stay as they are.                                 *)
C14_GetSemantics ==
    [][ Completes("get")
        => LET k == op'.key
               table == cache[1]
           IN /\ op'.pre = "fresh"
                 => /\ op'.result = table[k].data
                    /\ op'.result # None
                    /\ cache' = cache /\ cache_file' = cache_file
              /\ op'.pre = "stale"
                 => /\ op'.result = None
                    /\ k \notin DOMAIN cache'[1]
                    /\ cache_file'.exists
                    /\ cache_file'.doc = json_dump(cache'[1])
              /\ op'.pre = "absent"
                 => /\ op'.result = None
                    /\ cache' = cache /\ cache_file' = cache_file
              /\ SameElsewhere(cache'[1], table, k)
              /\ SameElsewhere(_load_cache(cache_file'), _load_cache(cache_file), k) ]_vars

C14_Witness ==
    /\ op.n > 0
    /\ op.name = "get"
    /\ ~op.crashed
    /\ op.pre = "stale"
    /\ now - op.time = 0
    /\ \E j \in DOMAIN cache[1] : KeyState(cache[1], j, now) = "stale"

(* C15: in every state of the store and at every time, for every key,      *)
(* is_cached(key) is true exactly when get(key) returns a stored value,    *)
(* and the two leave the same table and the same file: an expired entry of *)
(* the key is gone from both, and otherwise nothing has changed.           *)
C15_IsCachedAgreesWithGet ==
    \A k \in Keys :
        LET g == get(cache[1], cache_file, k, now)
            i == is_cached(cache[1], cache_file, k, now)
        IN /\ i.result \in BOOLEAN
           /\ i.result <=> g.result # None
           /\ i.result <=> KeyState(cache[1], k, now) = "fresh"
           /\ i.cache = g.cache
           /\ i.file = g.file
           /\ IF KeyState(cache[1], k, now) = "stale"
              THEN /\ k \notin DOMAIN i.cache
                   /\ k \notin DOMAIN _load_cache(i.file)
                   /\ SameElsewhere(i.cache, cache[1], k)
                   /\ SameElsewhere(_load_cache(i.file), _load_cache(cache_file), k)
              ELSE i.cache = cache[1] /\ i.file = cache_file

C15_Witness ==
    /\ op.n > 0
    /\ op.name = "is_cached"
    /\ ~op.crashed
    /\ op.pre = "stale"
    /\ op.result = FALSE
    /\ op.key \notin DOMAIN _load_cache(cache_file)
    /\ \E j \in DOMAIN cache[1] : is_cached(cache[1], cache_file, j, now).result

(* C16: get_stats changes neither the table nor the backing file, also     *)
(* when expired entries are present; it reports as total the number of     *)
(* entries in the table (expired ones included), as hits the number of     *)
(* entries within the expiration window, as misses total - hits, and a     *)
(* hit rate of hits / total, 0 for the empty table.                        *)
C16_StatsReadOnly ==
    [][ Completes("get_stats")
        => LET stats == op'.result
               table == cache[1]
               fresh == {k \in DOMAIN table : KeyState(table, k, now) = "fresh"}
           IN /\ cache' = cache
              /\ cache_file' = cache_file
              /\ now' = now
              /\ stats.total_requests = Cardinality(DOMAIN table)
              /\ stats.cache_hits = Cardinality(fresh)
              /\ stats.cache_misses = stats.total_requests - stats.cache_hits
              /\ stats.cache_misses
                    = Cardinality({k \in DOMAIN table : KeyState(table, k, now) = "stale"})
              /\ stats.hit_rate.den > 0
              /\ stats.hit_rate.num * stats.total_requests
                    = stats.cache_hits * stats.hit_rate.den
              /\ DOMAIN table = {} => stats.hit_rate.num = 0 ]_vars

C16_Witness ==
    /\ op.n > 0
    /\ op.name = "get_stats"
    /\ op.result.cache_hits = 1
    /\ op.result.cache_misses = 1
    /\ Cardinality(DOMAIN cache[1]) = 2
    /\ Cardinality(DOMAIN _load_cache(cache_file)) = 2

----------------------------------------------------------------------------
(* Properties of two clients (SpecClients) *)

(* C17: last_request_time belongs to one client: a call on a client leaves *)
(* the last_request_time of every other client as it was, and a call       *)
(* blocks only when the same client issued a request less than             *)
(* min_request_interval before it, whatever the other clients did.         *)
C17_ClientsIndependent ==
    [][ last'.n = last.n + 1
        => LET c == last'.client
           IN /\ \A d \in Instances \ {c} :
                    last_request_time'[d] = last_request_time[d]
              /\ last'.sleep_arg > 0
                    => /\ out_end[c] >= 0
                       /\ last'.start - out_end[c] < min_request_interval
              /\ (last'.requested /\ out_end[c] < 0)
                    => last'.req_start = last'.start ]_vars

C17_Witness ==
    /\ last.n >= 2
    /\ last.requested
    /\ last.sleep_arg = 0
    /\ last.prev_out_end < 0
    /\ \E d \in Instances \ {last.client} :
          /\ out_end[d] >= 0
          /\ last_request_time[d] = out_end[d]
          /\ last.start - out_end[d] < min_request_interval

(* C18: with two instances on one backing file, each loaded at its         *)
(* construction, every mutation writes the file from the table of the      *)
(* instance that mutates: afterwards the file holds exactly that table,    *)
(* and every entry the file held that this instance did not have is gone   *)
(* from the file, though the instance that wrote it still holds it.        *)
C18_FileIsWritersTable ==
    [][ (last'.n = last.n + 1 /\ cache_file' # cache_file)
        => LET c == last'.client
               before == _load_cache(cache_file)
               after == _load_cache(cache_file')
           IN /\ cache_file'.exists
              /\ after = cache'[c]
              /\ \A d \in Instances \ {c} : cache'[d] = cache[d]
              /\ \A k \in DOMAIN before \ (DOMAIN cache[c] \cup {last'.key}) :
                    k \notin DOMAIN after ]_vars

(* The lost update: an entry client 1 wrote with set, still fresh in its   *)
(* table, is missing from the file after a set of client 2.                *)
C18_Witness ==
    /\ last.n >= 2
    /\ last.client = 2
    /\ Outcome(last) = "success"
    /\ last.prev.outcome = "success"
    /\ last.prev.key # last.key
    /\ last.prev.key \in DOMAIN cache[1]
    /\ KeyState(cache[1], last.prev.key, now) = "fresh"
    /\ last.prev.key \notin DOMAIN _load_cache(cache_file)
    /\ last.key \in DOMAIN _load_cache(cache_file)

(* C20: set(key, value) makes the entry of key the value with the current  *)
(* time as timestamp, whatever entry the key had, leaves the entries of    *)
(* all other keys as they were and writes the table to the backing file;   *)
(* and from a set at time t on, get(key) returns that value for as long as *)
(* less than the expiration window has elapsed since t.                    *)
C20_SetSemantics ==
    /\ [][ Completes("set")
           => LET k == op'.key
              IN /\ k \in DOMAIN cache'[1]
                 /\ cache'[1][k] = [data |-> op'.arg, timestamp |-> now]
                 /\ SameElsewhere(cache'[1], cache[1], k)
                 /\ DOMAIN cache'[1] = DOMAIN cache[1] \cup {k}
                 /\ cache_file'.exists
                 /\ cache_file'.doc = json_dump(cache'[1])
                 /\ _load_cache(cache_file') = cache'[1] ]_vars
    /\ []((/\ op.n > 0 /\ op.name = "set" /\ ~op.crashed
           /\ now - op.time < expire_seconds)
          => /\ Read(cache[1], op.key) = op.arg
             /\ Read(_load_cache(cache_file), op.key) = op.arg)

C20_Witness ==
    /\ op.n > 0
    /\ op.name = "set"
    /\ ~op.crashed
    /\ op.pre = "stale"
    /\ now > op.time
    /\ Read(cache[1], op.key) = op.arg
    /\ Cardinality(DOMAIN cache[1]) = 2

====
